---- MODULE Spec2Model ----
(***************************************************************************)
(* Model of BaileysManager (src/src/whatsapp/baileys.manager.ts): the      *)
(* per-tenant session registry, createSession, the connection.update       *)
(* handler with its await points, the reconnect timer, disconnectSession,  *)
(* the bounded wait of createSession and handleMessagesUpsert.             *)
(*                                                                         *)
(* JavaScript runs each handler to completion between two awaits, so one   *)
(* action is the code between two await points.  Session objects are heap  *)
(* objects: `recs` is the heap, `sessions` the Map from tenant to a heap   *)
(* index, and a suspended handler keeps the index it read before its await *)
(* (the `session` local of the code).                                      *)
(*                                                                         *)
(* The transport (a WASocket) is a collaborator outside the repository: a  *)
(* socket that is open and has listeners may emit any connection.update;   *)
(* an update with connection 'close' is the last one a socket emits;       *)
(* end() and logout() close the socket.                                    *)
(*                                                                         *)
(* The specifications share the actions: Spec (registry, createSession,    *)
(* connection handler, reconnect timer, disconnectSession), SpecWait (the  *)
(* bounded wait), SpecMsg (handleMessagesUpsert), SpecApi (sendMessage,    *)
(* getSessionStatus, disconnectSession against one createSession call),    *)
(* SpecAuth (createSession with forceNewQR against credential directories  *)
(* left by earlier runs), SpecRetry and SpecGate (one client call followed *)
(* by the program's own reconnects, with and without the assumption that   *)
(* every remote request settles) and SpecPair (updates that carry a        *)
(* pairing code together with a connection change).                        *)
(*                                                                         *)
(* Not modelled: the contents of the audit and status rows written to      *)
(* Supabase.                                                               *)
(***************************************************************************)
EXTENDS Integers, Sequences, FiniteSets, TLC

\* ------------------------------------------------------------------ bounds
MaxCalls == 3        \* createSession invocations (client and reconnect) in a run
MaxEvents == 2       \* connection.update events emitted in a run
MaxDisconnects == 1  \* disconnectSession invocations in a run
MaxBatch == 2        \* messages in one messages.upsert batch
MaxApiCalls == 2     \* sendMessage / getSessionStatus / disconnectSession calls

\* ------------------------------------------------------- program constants
maxPolls == 90
safetyTimeoutSec == 95

\* --------------------------------------------------------------- universes
UuidIds == {"0f8fad5b-d9cb-469f-a165-70867728950e"}
Tenants == UuidIds \cup {"agency-1"}
Projects == {"aiod", "wakhaflow"}
Undefined == "undefined"
Null == "null"
HookUrl == "https://hook"
\* the options a client passes: none, project B with a webhook, project A
\* with an empty webhook_url
ClientOptions ==
  { [project |-> Undefined, webhookUrl |-> Undefined, forceNewQR |-> FALSE],
    [project |-> "wakhaflow", webhookUrl |-> HookUrl, forceNewQR |-> FALSE],
    [project |-> "aiod", webhookUrl |-> "", forceNewQR |-> FALSE] }
\* the same with force_new_qr (routes line 33)
ForceOptions ==
  { [o EXCEPT !.forceNewQR = f] : o \in ClientOptions, f \in BOOLEAN }
\* the credential directory of a tenant: missing, without files, with creds
AuthStates == {"absent", "empty", "creds"}
LoggedOut == "loggedOut"
OtherReason == "other"
NoReason == "none"

\* Partial<ConnectionState>: qr, connection, lastDisconnect reason.
AllUpdates ==
  { u \in [qr : BOOLEAN, connection : {"none", "open", "close"},
           reason : {NoReason, LoggedOut, OtherReason}] :
      /\ (u.connection = "close") <=> (u.reason # NoReason)
      /\ u.qr \/ u.connection # "none" }

\* The updates the transport emits: a pairing code alone, or a connection
\* change alone.
Updates == { u \in AllUpdates : u.qr => u.connection = "none" }

VARIABLES
  sessions,    \* this.sessions : tenant -> index into recs, 0 when absent
  recs,        \* heap of Session objects, in creation order
  meta,        \* of each Session object: tenant, creator, eviction, and
               \* where the createSession call that made it has got to
  socks,       \* the WASockets made by makeWASocket, in creation order
  calls,       \* createSession invocations suspended at an await
  tasks,       \* handleConnectionUpdate invocations suspended at an await,
               \* each with whether a later event has written its record
  timers,      \* pending reconnect setTimeout callbacks
  discs,       \* disconnectSession invocations suspended at logout()
  ncalls,      \* createSession invocations so far
  nevents,     \* connection.update events emitted so far
  ndiscs,      \* disconnectSession invocations so far
  loggedOut,   \* history: tenant saw close(loggedOut) and no client call since
  auth,        \* the credential directory of each tenant under authDir
  api,         \* sendMessage / getSessionStatus / disconnectSession calls
  wait,        \* the Promise of createSession's wait (one call)
  fwd          \* one handleMessagesUpsert invocation

mainVars == <<sessions, recs, meta, socks, calls, tasks, timers, discs,
              ncalls, nevents, ndiscs, loggedOut, auth>>
vars == <<sessions, recs, meta, socks, calls, tasks, timers, discs, ncalls,
          nevents, ndiscs, loggedOut, auth, api, wait, fwd>>

\* ---------------------------------------------------------- pure helpers

\* a check that accepts every store id
AcceptAnyId(id) == TRUE

\* line 104-105: uuidRegex.test(agencyId)
uuidRegexTest(id) == id \in UuidIds

\* line 87: options.project || 'aiod'
ProjectOf(p) == IF p = Undefined THEN "aiod" ELSE p

\* line 88: options.webhookUrl || null
WebhookOf(w) == IF w = Undefined \/ w = "" THEN Null ELSE w

\* lines 150-164: rmSync when forceNewQR and the directory exists, then
\* mkdirSync when it does not exist
AuthDir(a, forceNewQR) ==
  LET cleared == IF forceNewQR /\ a # "absent" THEN "absent" ELSE a IN
  IF cleared = "absent" THEN "empty" ELSE cleared

\* lines 173-182: the Session object createSession installs
NewSession(project, webhookUrl) ==
  [socket |-> 0, qrCode |-> 0, status |-> "connecting", phoneNumber |-> 0,
   verifiedName |-> 0, project |-> project, webhookUrl |-> webhookUrl]

\* lines 365-367: QRCode.toDataURL succeeded
OnQr(s, url) == [s EXCEPT !.qrCode = url, !.status = "pending"]

\* line 405
OnClose(s) == [s EXCEPT !.status = "disconnected"]

\* the open branch without line 432
OnOpenKeepQr(s) ==
  [s EXCEPT !.status = "connected",
            !.phoneNumber = s.socket, !.verifiedName = s.socket]

\* lines 431-439: socket.user of the socket the record holds
OnOpen(s) ==
  [s EXCEPT !.status = "connected", !.qrCode = 0,
            !.phoneNumber = s.socket, !.verifiedName = s.socket]

\* line 387
shouldReconnect(reason) == reason # LoggedOut

\* a reconnect that calls createSession(agencyId) with no options
ReconnectDefaults(s) == [project |-> Undefined, webhookUrl |-> Undefined]

\* lines 424-427: the options the reconnect timer passes
ReconnectOptions(s) ==
  [project |-> s.project,
   webhookUrl |-> IF s.webhookUrl = Null THEN Undefined ELSE s.webhookUrl]

\* lines 139-142: removeAllListeners x3, then end(undefined)
Teardown(k) == [k EXCEPT !.listeners = FALSE, !.live = FALSE]

\* line 417: end(undefined) with the listeners left attached
End(k) == [k EXCEPT !.live = FALSE]

\* lines 188-256: makeWASocket over the credentials useMultiFileAuthState
\* read from the directory (`a`), and the three ev.on subscriptions
NewSocket(t, a) ==
  [t |-> t, live |-> TRUE, listeners |-> TRUE, creds |-> a]

\* a cleanup that closes every socket of the process
CleanupAll(t) == [k \in DOMAIN socks |-> Teardown(socks[k])]

\* lines 134-148: the sockets after the cleanup of the existing session
Cleanup(t) ==
  LET old == sessions[t] IN
  IF old # 0 /\ recs[old].socket # 0
  THEN [socks EXCEPT ![recs[old].socket] = Teardown(@)]
  ELSE socks

\* an install that keeps an entry the Map already holds
InstallIfAbsent(t, r) ==
  IF sessions[t] # 0 THEN sessions ELSE [sessions EXCEPT ![t] = r]

\* lines 147 and 184: sessions.delete(agencyId); sessions.set(agencyId, session)
Install(t, r) == [sessions EXCEPT ![t] = r]

\* ------------------------------------------------------------------- Init
NoResult == [qrCode |-> 0, status |-> "unresolved"]
NoWait ==
  [phase |-> "off", t |-> "", now |-> 0, pollCount |-> 0, resolved |-> FALSE,
   resolveCount |-> 0, interval |-> FALSE, safety |-> FALSE,
   result |-> NoResult]
NoFwd ==
  [phase |-> "idle", t |-> "", session |-> 0, batch |-> <<>>, i |-> 0,
   pc |-> "none", audit |-> <<>>, stored |-> <<>>, hook |-> <<>>,
   fallback |-> <<>>, failures |-> {}]

MainInit ==
  /\ sessions = [t \in Tenants |-> 0]
  /\ recs = <<>>
  /\ meta = <<>>
  /\ socks = <<>>
  /\ calls = {}
  /\ tasks = {}
  /\ timers = {}
  /\ discs = {}
  /\ ncalls = 0
  /\ nevents = 0
  /\ ndiscs = 0
  /\ loggedOut = [t \in Tenants |-> FALSE]

\* no client call has been made
NoSend == [t |-> "", sock |-> 0]
NoApi == [log |-> <<>>, send |-> NoSend]

Init ==
  /\ MainInit
  /\ auth = [t \in Tenants |-> "absent"]
  /\ api = NoApi
  /\ wait = NoWait
  /\ fwd = NoFwd

\* ---------------------------------------------------------- createSession

\* lines 130-184, run without an await: cleanup of the existing session,
\* delete, the credential directory, then the new Session object is set.
\* `c` is the invocation.
EvictInstall(c) ==
  LET t == c.t
      old == sessions[t]
      r == Len(recs) + 1
  IN
  /\ socks' = Cleanup(t)
  /\ recs' = Append(recs, NewSession(c.project, c.webhookUrl))
  /\ meta' = Append(
       IF old = 0 THEN meta ELSE [meta EXCEPT ![old].evicted = TRUE],
       [t |-> t, origin |-> c.origin, evicted |-> FALSE,
        afterLogout |-> (c.origin # 0 /\ loggedOut[t]),
        outcome |-> "running"])
  /\ sessions' = Install(t, r)
  /\ auth' = [auth EXCEPT ![t] = AuthDir(@, c.forceNewQR)]
  /\ calls' = (calls \ {c}) \cup {[c EXCEPT !.pc = "auth", !.rec = r]}

\* lines 83-128: entry of createSession up to its first await or throw.
\* project wakhaflow validates synchronously and goes on to line 184;
\* project aiod awaits the agencies lookup.
CreateSession(t, p, w, f, origin) ==
  LET c == [id |-> ncalls + 1, t |-> t, project |-> ProjectOf(p),
            webhookUrl |-> WebhookOf(w), forceNewQR |-> f, origin |-> origin,
            pc |-> "lookup", rec |-> 0]
  IN
  /\ ncalls < MaxCalls
  /\ ncalls' = ncalls + 1
  /\ IF c.project = "wakhaflow"
     THEN IF uuidRegexTest(t)
          THEN EvictInstall(c)
          ELSE UNCHANGED <<sessions, recs, meta, socks, calls, auth>>
     ELSE /\ calls' = calls \cup {c}
          /\ UNCHANGED <<sessions, recs, meta, socks, auth>>

\* routes lines 30-34: POST /session calls createSession
ClientCall(t, o) ==
  /\ CreateSession(t, o.project, o.webhookUrl, o.forceNewQR, 0)
  /\ loggedOut' = [loggedOut EXCEPT ![t] = FALSE]
  /\ UNCHANGED <<tasks, timers, discs, nevents, ndiscs, wait, fwd>>

\* A client calls POST /session.
ClientCreateSession(t, o) ==
  /\ ClientCall(t, o)
  /\ UNCHANGED api

\* lines 113-128: the agencies lookup returns; not found throws.
LookupFound(c) ==
  /\ c \in calls /\ c.pc = "lookup"
  /\ EvictInstall(c)
  /\ UNCHANGED <<tasks, timers, discs, ncalls, nevents, ndiscs, loggedOut,
                 wait, fwd, api>>

LookupThrows(c) ==
  /\ c \in calls /\ c.pc = "lookup"
  /\ calls' = calls \ {c}
  /\ UNCHANGED <<sessions, recs, meta, socks, tasks, timers, discs, ncalls,
                 nevents, ndiscs, loggedOut, wait, fwd, auth>>

LookupNotFound(c) ==
  /\ LookupThrows(c)
  /\ UNCHANGED api

\* lines 188-258: useMultiFileAuthState returned, makeWASocket succeeded,
\* session.socket is set and the listeners are attached; the call then
\* enters its wait (lines 267-334), which changes no Session.
SocketCreated(c) ==
  /\ c \in calls /\ c.pc = "auth"
  /\ socks' = Append(socks, NewSocket(c.t, auth[c.t]))
  /\ recs' = [recs EXCEPT ![c.rec].socket = Len(socks) + 1]
  /\ meta' = [meta EXCEPT ![c.rec].outcome = "waiting"]
  /\ calls' = calls \ {c}
  /\ UNCHANGED <<sessions, tasks, timers, discs, ncalls, nevents,
                 ndiscs, loggedOut, wait, fwd, auth, api>>

\* a catch block that rethrows and leaves the status as it is
RethrowOnly(s) == s

\* line 263
OnSocketError(s) == [s EXCEPT !.status = "disconnected"]

\* lines 260-265: makeWASocket threw; the call throws and never reaches
\* its wait
SocketFailed(c) ==
  /\ c \in calls /\ c.pc = "auth"
  /\ recs' = [recs EXCEPT ![c.rec] = OnSocketError(@)]
  /\ meta' = [meta EXCEPT ![c.rec].outcome = "threw"]
  /\ calls' = calls \ {c}
  /\ UNCHANGED <<sessions, socks, tasks, timers, discs, ncalls,
                 nevents, ndiscs, loggedOut, wait, fwd, auth, api>>

\* -------------------------------------------------- handleConnectionUpdate

\* lines 442-474: the downstream request the open branch makes for Session s
Notification(s) ==
  IF s.project = "wakhaflow"
  THEN IF s.webhookUrl # Null THEN "webhook" ELSE "none"
  ELSE "agencies"

\* lines 383-447 up to the next await, on Session r for update u of socket k,
\* from heap h and suspended handlers ts.
ConnectionPart(r, u, k, h, ts) ==
  LET t == meta[r].t IN
  IF u.connection = "close"
  THEN /\ recs' = [h EXCEPT ![r] = OnClose(@)]
       /\ tasks' = ts \cup {[t |-> t, rec |-> r, u |-> u, sock |-> k,
                             pc |-> "closeDB", overtaken |-> FALSE,
                             notify |-> "none"]}
       /\ loggedOut' = IF u.reason = LoggedOut
                       THEN [loggedOut EXCEPT ![t] = TRUE] ELSE loggedOut
  ELSE IF u.connection = "open"
  THEN /\ recs' = [h EXCEPT ![r] = OnOpen(@)]
       /\ tasks' = ts \cup {[t |-> t, rec |-> r, u |-> u, sock |-> k,
                             pc |-> "openDB", overtaken |-> FALSE,
                             notify |-> Notification(h[r])]}
       /\ UNCHANGED loggedOut
  ELSE /\ recs' = h
       /\ tasks' = ts
       /\ UNCHANGED loggedOut

\* The handlers still suspended on Session r when the handler of a later
\* event writes r (lines 405 and 431 run before any await of that handler).
Overtake(ts, r) ==
  { [x EXCEPT !.overtaken = (@ \/ x.rec = r)] : x \in ts }

\* The transport state after socket k emitted u.
Emitted(k, u) ==
  [socks EXCEPT ![k].live = IF u.connection = "close" THEN FALSE ELSE @]

\* lines 242-245 and 338-380: socket k emits connection.update u; the
\* listener runs handleConnectionUpdate(agencyId, u) up to its first await.
EmitUpdate(k, u) ==
  LET t == socks[k].t
      r == sessions[t]
  IN
  /\ socks[k].live /\ socks[k].listeners
  /\ nevents < MaxEvents
  /\ nevents' = nevents + 1
  /\ socks' = Emitted(k, u)
  /\ IF r = 0
     THEN UNCHANGED <<recs, tasks, loggedOut>>
     ELSE IF u.qr
     THEN /\ tasks' = tasks \cup {[t |-> t, rec |-> r, u |-> u, sock |-> k,
                                  pc |-> "qr", overtaken |-> FALSE,
                                  notify |-> "none"]}
          /\ UNCHANGED <<recs, loggedOut>>
     ELSE ConnectionPart(r, u, k, recs, Overtake(tasks, r))
  /\ UNCHANGED <<sessions, meta, calls, timers, discs, ncalls, ndiscs, wait,
                 fwd, auth, api>>

\* lines 364-375 then 382-432: QRCode.toDataURL resolved; the data URL of
\* the code of socket k is written as k.
Rendered(x) ==
  /\ x \in tasks /\ x.pc = "qr"
  /\ ConnectionPart(x.rec, x.u, x.sock,
                    [recs EXCEPT ![x.rec] = OnQr(@, x.sock)], tasks \ {x})
  /\ UNCHANGED <<sessions, meta, socks, calls, timers, discs, ncalls,
                 nevents, ndiscs, wait, fwd, auth>>

QrRendered(x) == Rendered(x) /\ UNCHANGED api

\* a failed rendering that ends the handler
QrFailedAborts(x) ==
  /\ x \in tasks /\ x.pc = "qr"
  /\ tasks' = tasks \ {x}
  /\ UNCHANGED <<sessions, recs, meta, socks, calls, timers, discs, ncalls,
                 nevents, ndiscs, loggedOut, wait, fwd, auth, api>>

\* lines 376-379 then 382-432: QRCode.toDataURL rejected
QrFailed(x) ==
  /\ x \in tasks /\ x.pc = "qr"
  /\ ConnectionPart(x.rec, x.u, x.sock, recs, tasks \ {x})
  /\ UNCHANGED <<sessions, meta, socks, calls, timers, discs, ncalls,
                 nevents, ndiscs, wait, fwd, auth, api>>

\* lines 412-428: updateSessionInDB returned after a close
CloseContinues(x) ==
  LET k == recs[x.rec].socket IN
  /\ x \in tasks /\ x.pc = "closeDB"
  /\ tasks' = tasks \ {x}
  /\ IF shouldReconnect(x.u.reason)
     THEN /\ socks' = IF k # 0 THEN [socks EXCEPT ![k] = End(@)] ELSE socks
          /\ recs' = [recs EXCEPT ![x.rec].socket = 0]
          /\ timers' = timers \cup {[t |-> x.t, rec |-> x.rec, sock |-> x.sock,
                                     reason |-> x.u.reason]}
     ELSE UNCHANGED <<socks, recs, timers>>
  /\ UNCHANGED <<sessions, meta, calls, discs, ncalls, nevents, ndiscs,
                 loggedOut, wait, fwd, auth, api>>

\* lines 441-483: what follows the writes of the open branch: the webhook
\* notification (caught at line 460) or the agencies update, then
\* updateSessionInDB (which catches); whether they succeed or fail, the
\* handler ends without another write to the Session
OpenSettled(x, ok) ==
  /\ x \in tasks /\ x.pc = "openDB"
  /\ tasks' = tasks \ {x}
  /\ UNCHANGED <<sessions, recs, meta, socks, calls, timers, discs, ncalls,
                 nevents, ndiscs, loggedOut, wait, fwd, auth, api>>

\* a reconnect timer that gives up when the record it was scheduled for was
\* itself made by a reconnect: one attempt per client call
ReconnectTimerCapped(tm) ==
  LET o == ReconnectOptions(recs[tm.rec]) IN
  /\ tm \in timers
  /\ timers' = timers \ {tm}
  /\ IF meta[tm.rec].origin = 0
     THEN CreateSession(tm.t, o.project, o.webhookUrl, FALSE, tm.rec)
     ELSE UNCHANGED <<sessions, recs, meta, socks, calls, ncalls, auth>>
  /\ UNCHANGED <<tasks, discs, nevents, ndiscs, loggedOut, wait, fwd, api>>

\* lines 424-427: the reconnect timer fires and calls createSession; the
\* options carry no forceNewQR, which line 89 reads as false
ReconnectTimer(tm) ==
  LET o == ReconnectOptions(recs[tm.rec]) IN
  /\ tm \in timers
  /\ CreateSession(tm.t, o.project, o.webhookUrl, FALSE, tm.rec)
  /\ timers' = timers \ {tm}
  /\ UNCHANGED <<tasks, discs, nevents, ndiscs, loggedOut, wait, fwd, api>>

\* -------------------------------------------------------- disconnectSession

\* a disconnect that awaits logout() without looking at session?.socket
DisconnectingUnguarded(t) ==
  {[t |-> t, rec |-> sessions[t],
    sock |-> IF sessions[t] # 0 THEN recs[sessions[t]].socket ELSE 0]}

\* lines 641-643: session?.socket, then the call of logout()
Disconnecting(t) ==
  LET r == sessions[t] IN
  IF r # 0 /\ recs[r].socket # 0
  THEN {[t |-> t, rec |-> r, sock |-> recs[r].socket]}
  ELSE {}

\* lines 640-643: up to the await of socket.logout()
DisconnectSession(t) ==
  /\ ndiscs < MaxDisconnects
  /\ ndiscs' = ndiscs + 1
  /\ discs' = discs \cup Disconnecting(t)
  /\ UNCHANGED <<sessions, recs, meta, socks, calls, tasks, timers, ncalls,
                 nevents, loggedOut, wait, fwd, auth, api>>

\* line 644: logout() resolved (the socket is closed), the entry is deleted
LogoutResolved(d) ==
  /\ d \in discs
  /\ discs' = discs \ {d}
  /\ socks' = [socks EXCEPT ![d.sock] = End(@)]
  /\ sessions' = [sessions EXCEPT ![d.t] = 0]
  /\ UNCHANGED <<recs, meta, calls, tasks, timers, ncalls, nevents, ndiscs,
                 loggedOut, wait, fwd, auth, api>>

\* line 643: logout() rejected; disconnectSession throws before line 644
LogoutRejected(d) ==
  /\ d \in discs
  /\ discs' = discs \ {d}
  /\ UNCHANGED <<sessions, recs, meta, socks, calls, tasks, timers, ncalls,
                 nevents, ndiscs, loggedOut, wait, fwd, auth, api>>

\* ------------------------------------------------------------------- Next
Next ==
  \/ \E t \in Tenants, o \in ClientOptions : ClientCreateSession(t, o)
  \/ \E c \in calls : LookupFound(c)
  \/ \E c \in calls : LookupNotFound(c)
  \/ \E c \in calls : SocketCreated(c)
  \/ \E c \in calls : SocketFailed(c)
  \/ \E k \in DOMAIN socks, u \in Updates : EmitUpdate(k, u)
  \/ \E x \in tasks : QrRendered(x)
  \/ \E x \in tasks : QrFailed(x)
  \/ \E x \in tasks : CloseContinues(x)
  \/ \E x \in tasks, ok \in BOOLEAN : OpenSettled(x, ok)
  \/ \E tm \in timers : ReconnectTimer(tm)
  \/ \E t \in Tenants : DisconnectSession(t)
  \/ \E d \in discs : LogoutResolved(d)
  \/ \E d \in discs : LogoutRejected(d)

Spec == Init /\ [][Next]_vars

\* ------------------------------------------- the wait of createSession
\* lines 267-334.  Time is counted in seconds from the start of the wait;
\* the interval callback number n is due at second n, the safety timeout at
\* second safetyTimeoutSec; two callbacks due in the same second run in
\* either order.  Between two callbacks any other handler may run, so the
\* entry of the tenant may change in any way a Session can.

Statuses == {"pending", "connecting", "connected", "disconnected"}

\* lines 277 and 325: this.sessions.get(agencyId), as the wait reads it
CurrentSession(t) ==
  IF sessions[t] = 0
  THEN [present |-> FALSE, qrCode |-> 0, status |-> "undefined"]
  ELSE [present |-> TRUE, qrCode |-> recs[sessions[t]].qrCode,
        status |-> recs[sessions[t]].status]

\* resolved = true; clearInterval(checkInterval); resolve(result)
Resolve(w, result) ==
  [w EXCEPT !.resolved = TRUE, !.interval = FALSE, !.resolveCount = @ + 1,
            !.result = result]

\* a poll that also ends the wait when the session is 'disconnected'
PollTickEndsOnClose(w, cs) ==
  LET w1 == [w EXCEPT !.pollCount = @ + 1] IN
  IF cs.present /\ ~w1.resolved
       /\ (cs.qrCode # 0 \/ cs.status \in {"connected", "disconnected"})
  THEN Resolve(w1, [qrCode |-> cs.qrCode,
                    status |-> IF cs.qrCode # 0 THEN "pending" ELSE cs.status])
  ELSE IF cs.present /\ ~w1.resolved /\ w1.pollCount >= maxPolls
  THEN Resolve(w1, [qrCode |-> cs.qrCode, status |-> cs.status])
  ELSE w1

\* lines 275-318: one run of the setInterval callback
PollTick(w, cs) ==
  LET w1 == [w EXCEPT !.pollCount = @ + 1] IN
  IF cs.present /\ ~w1.resolved
  THEN LET w2 == IF cs.qrCode # 0
                 THEN Resolve(w1, [qrCode |-> cs.qrCode, status |-> "pending"])
                 ELSE IF cs.status = "connected"
                 THEN Resolve(w1, [qrCode |-> 0, status |-> "connected"])
                 ELSE w1
       IN IF w2.pollCount >= maxPolls /\ ~w2.resolved
          THEN Resolve(w2, [qrCode |-> cs.qrCode, status |-> cs.status])
          ELSE w2
  ELSE w1

\* a safety timeout that only clears itself
SafetyNoResolve(w, cs) == [w EXCEPT !.safety = FALSE]

\* lines 321-333: the setTimeout callback
SafetyTimeout(w, cs) ==
  LET w1 == [w EXCEPT !.safety = FALSE] IN
  IF ~w1.resolved
  THEN Resolve(w1, [qrCode |-> IF cs.present THEN cs.qrCode ELSE 0,
                    status |-> IF cs.present THEN cs.status ELSE "timeout"])
  ELSE w1

\* The (status, qrCode) pairs a Session takes in the main model.
SessionViews ==
  { v \in [status : Statuses, qrCode : {0, 1}] :
      v.qrCode # 0 => v.status \in {"pending", "disconnected"} }

\* The wait starts when createSession has set session.socket (line 238) and
\* attached the listeners.
WaitInit ==
  \E t \in Tenants, o \in ClientOptions :
    /\ ProjectOf(o.project) = "wakhaflow" => uuidRegexTest(t)
    /\ sessions = [x \in Tenants |-> IF x = t THEN 1 ELSE 0]
    /\ recs = << [NewSession(ProjectOf(o.project), WebhookOf(o.webhookUrl))
                   EXCEPT !.socket = 1] >>
    /\ meta = << [t |-> t, origin |-> 0, evicted |-> FALSE,
                  afterLogout |-> FALSE, outcome |-> "waiting"] >>
    /\ socks = << NewSocket(t, "empty") >>
    /\ calls = {} /\ tasks = {} /\ timers = {} /\ discs = {}
    /\ ncalls = 1 /\ nevents = 0 /\ ndiscs = 0
    /\ loggedOut = [x \in Tenants |-> FALSE]
    /\ auth = [x \in Tenants |-> IF x = t THEN "empty" ELSE "absent"]
    /\ api = NoApi
    /\ wait = [phase |-> "waiting", t |-> t, now |-> 0, pollCount |-> 0,
               resolved |-> FALSE, resolveCount |-> 0, interval |-> TRUE,
               safety |-> TRUE, result |-> NoResult]
    /\ fwd = NoFwd

waitFrame == <<meta, socks, calls, tasks, timers, discs, ncalls, nevents,
               ndiscs, loggedOut, auth, api, fwd>>

\* one second passes, once the callbacks due now have run
WaitSecond ==
  /\ wait.phase = "waiting"
  /\ wait.now < safetyTimeoutSec
  /\ wait.interval => wait.pollCount = wait.now
  /\ wait' = [wait EXCEPT !.now = @ + 1]
  /\ UNCHANGED <<sessions, recs>>
  /\ UNCHANGED waitFrame

WaitTick ==
  /\ wait.phase = "waiting"
  /\ wait.interval
  /\ wait.pollCount < wait.now
  /\ wait' = PollTick(wait, CurrentSession(wait.t))
  /\ UNCHANGED <<sessions, recs>>
  /\ UNCHANGED waitFrame

WaitSafety ==
  /\ wait.phase = "waiting"
  /\ wait.safety
  /\ wait.now = safetyTimeoutSec
  /\ wait' = SafetyTimeout(wait, CurrentSession(wait.t))
  /\ UNCHANGED <<sessions, recs>>
  /\ UNCHANGED waitFrame

\* Another handler runs: the tenant's Session changes (an event), or its
\* entry is deleted (disconnectSession), or set again (createSession).
OtherHandlers(present, v) ==
  /\ wait.phase = "waiting"
  /\ wait.safety
  /\ sessions' = [sessions EXCEPT ![wait.t] = IF present THEN 1 ELSE 0]
  /\ recs' = [recs EXCEPT ![1].status = v.status, ![1].qrCode = v.qrCode]
  /\ UNCHANGED wait
  /\ UNCHANGED waitFrame

WaitNext ==
  \/ WaitSecond
  \/ WaitTick
  \/ WaitSafety
  \/ \E present \in BOOLEAN, v \in SessionViews : OtherHandlers(present, v)

\* The event loop runs every due timer callback and time passes.
SpecWait ==
  /\ WaitInit
  /\ [][WaitNext]_vars
  /\ WF_vars(WaitSecond)
  /\ WF_vars(WaitTick)
  /\ WF_vars(WaitSafety)

\* ------------------------------------------------- handleMessagesUpsert
\* lines 487-566.  The supabase client resolves its calls with {data, error}
\* and logEvent catches what it throws, so a failed audit log or insert
\* lets the loop go on; a rejected delivery is caught at line 562.

Messages == [fromMe : BOOLEAN]
Batches == UNION { [1..n -> Messages] : n \in 0..MaxBatch }
MsgOptions == [project : Projects \cup {Undefined},
               webhookUrl : {Undefined, "", HookUrl}]

\* a loop that handles every message, echo or not
NextAny(b, i) == i

\* lines 490-491: the next message at or after i that is not fromMe
RECURSIVE NextGenuine(_, _)
NextGenuine(b, i) ==
  IF i > Len(b) THEN i
  ELSE IF b[i].fromMe THEN NextGenuine(b, i + 1)
  ELSE i

\* line 506: session?.project === 'wakhaflow' stores nothing here
StoresDirectly(r) == ~(r # 0 /\ recs[r].project = "wakhaflow")

\* a forwarder that also invokes the fallback when a webhook is set
ChannelsBoth(r) ==
  IF r # 0 /\ recs[r].webhookUrl # Null
  THEN {"webhook", "fallback"} ELSE {"fallback"}

\* lines 525 and 544: the channel a message is delivered on
Channels(r) ==
  IF r # 0 /\ recs[r].webhookUrl # Null THEN {"webhook"} ELSE {"fallback"}

Bump(q, i) == [q EXCEPT ![i] = @ + 1]

\* lines 490-503: from message i to the await of logEvent, or the loop's end
EnterLoop(f, i) ==
  LET j == NextGenuine(f.batch, i) IN
  IF j > Len(f.batch)
  THEN [f EXCEPT !.phase = "done", !.i = j, !.pc = "none"]
  ELSE [f EXCEPT !.i = j, !.pc = "logEvent", !.audit = Bump(@, j)]

\* lines 523-561: the delivery is started
StartDelivery(f) ==
  [f EXCEPT !.pc = "deliver",
            !.hook = IF "webhook" \in Channels(f.session)
                     THEN Bump(@, f.i) ELSE @,
            !.fallback = IF "fallback" \in Channels(f.session)
                         THEN Bump(@, f.i) ELSE @]

Failed(f, ok, what) ==
  [f EXCEPT !.failures = IF ok THEN @ ELSE @ \cup {what}]

\* A Session of the tenant t0 that has been opened, as the main model
\* leaves it; the other tenant has no entry.
MsgInit ==
  \E t0 \in Tenants, o \in MsgOptions :
    /\ ProjectOf(o.project) = "wakhaflow" => uuidRegexTest(t0)
    /\ sessions = [x \in Tenants |-> IF x = t0 THEN 1 ELSE 0]
    /\ recs = << OnOpen([NewSession(ProjectOf(o.project),
                                    WebhookOf(o.webhookUrl))
                          EXCEPT !.socket = 1]) >>
    /\ meta = << [t |-> t0, origin |-> 0, evicted |-> FALSE,
                  afterLogout |-> FALSE, outcome |-> "waiting"] >>
    /\ socks = << NewSocket(t0, "empty") >>
    /\ calls = {} /\ tasks = {} /\ timers = {} /\ discs = {}
    /\ ncalls = 1 /\ nevents = 1 /\ ndiscs = 0
    /\ loggedOut = [x \in Tenants |-> FALSE]
    /\ auth = [x \in Tenants |-> IF x = t0 THEN "empty" ELSE "absent"]
    /\ api = NoApi
    /\ wait = NoWait
    /\ fwd = NoFwd

\* lines 254-256 and 487-503: a socket emits messages.upsert
MessagesUpsert(t, b) ==
  LET z == [k \in 1..Len(b) |-> 0] IN
  /\ fwd.phase = "idle"
  /\ fwd' = EnterLoop([fwd EXCEPT !.phase = "running", !.t = t,
                                  !.session = sessions[t], !.batch = b,
                                  !.audit = z, !.stored = z, !.hook = z,
                                  !.fallback = z], 1)
  /\ UNCHANGED <<mainVars, wait, api>>

\* lines 503-521: logEvent returned (it swallows a failure)
LogEventSettled(ok) ==
  /\ fwd.phase = "running" /\ fwd.pc = "logEvent"
  /\ fwd' = IF StoresDirectly(fwd.session)
            THEN [Failed(fwd, ok, "log") EXCEPT !.pc = "insert",
                                                !.stored = Bump(@, fwd.i)]
            ELSE StartDelivery(Failed(fwd, ok, "log"))
  /\ UNCHANGED <<mainVars, wait, api>>

\* lines 511-523: the insert resolved, with or without an error
InsertSettled(ok) ==
  /\ fwd.phase = "running" /\ fwd.pc = "insert"
  /\ fwd' = StartDelivery(Failed(fwd, ok, "insert"))
  /\ UNCHANGED <<mainVars, wait, api>>

\* lines 543-565: the delivery resolved or threw; the loop goes on
DeliverySettled(ok) ==
  /\ fwd.phase = "running" /\ fwd.pc = "deliver"
  /\ fwd' = EnterLoop(Failed(fwd, ok, "deliver"), fwd.i + 1)
  /\ UNCHANGED <<mainVars, wait, api>>

MsgNext ==
  \/ \E t \in Tenants, b \in Batches : MessagesUpsert(t, b)
  \/ \E ok \in BOOLEAN : LogEventSettled(ok)
  \/ \E ok \in BOOLEAN : InsertSettled(ok)
  \/ \E ok \in BOOLEAN : DeliverySettled(ok)

SpecMsg == MsgInit /\ [][MsgNext]_vars

\* ------------------------- sendMessage, getSessionStatus, disconnectSession
\* The calls a client makes besides createSession, with what each returned.
\* They run against a registry that one createSession call and the events of
\* its socket build; `api.log` keeps the calls that returned, `api.send` the
\* sendMessage call suspended at socket.sendMessage.

\* line 573
NotConnected == [success |-> FALSE, error |-> "Session not connected"]

\* a gate that only looks for the entry
SendGatePresent(t) == sessions[t] # 0

\* line 572, negated: the session exists, is 'connected' and has a socket
SendGate(t) ==
  /\ sessions[t] # 0
  /\ recs[sessions[t]].status = "connected"
  /\ recs[sessions[t]].socket # 0

\* lines 587 and 590: what sendMessage returns after socket.sendMessage
SendResult(ok) ==
  IF ok THEN [success |-> TRUE, error |-> Undefined]
  ELSE [success |-> FALSE, error |-> "send failed"]

ApiCalls == Len(api.log) + (IF api.send = NoSend THEN 0 ELSE 1)

Logged(op, t, result) ==
  [api EXCEPT !.log = Append(@, [op |-> op, t |-> t, result |-> result])]

\* lines 569-580: sendMessage up to its return at line 573 or to the await
\* of socket.sendMessage
SendMessage(t) ==
  /\ ApiCalls < MaxApiCalls
  /\ api.send = NoSend
  /\ api' = IF SendGate(t)
            THEN [api EXCEPT !.send = [t |-> t,
                                       sock |-> recs[sessions[t]].socket]]
            ELSE Logged("send", t, NotConnected)
  /\ UNCHANGED <<mainVars, wait, fwd>>

\* lines 580-591: socket.sendMessage resolved (logEvent follows and swallows
\* its failure) or rejected (caught at line 588)
SendSettled(ok) ==
  /\ api.send # NoSend
  /\ api' = [Logged("send", api.send.t, SendResult(ok)) EXCEPT
              !.send = NoSend]
  /\ UNCHANGED <<mainVars, wait, fwd>>

\* line 599
NotFound ==
  [status |-> "not_found", phoneNumber |-> 0, verifiedName |-> 0, qrCode |-> 0]

\* a status that reports a closed session as unknown
StatusHidesClosed(t) ==
  IF sessions[t] = 0 \/ recs[sessions[t]].status = "disconnected"
  THEN NotFound
  ELSE [status |-> recs[sessions[t]].status,
        phoneNumber |-> recs[sessions[t]].phoneNumber,
        verifiedName |-> recs[sessions[t]].verifiedName,
        qrCode |-> recs[sessions[t]].qrCode]

\* lines 595-608
getSessionStatus(t) ==
  IF sessions[t] = 0
  THEN NotFound
  ELSE [status |-> recs[sessions[t]].status,
        phoneNumber |-> recs[sessions[t]].phoneNumber,
        verifiedName |-> recs[sessions[t]].verifiedName,
        qrCode |-> recs[sessions[t]].qrCode]

\* routes lines 50-54: GET /session/:agencyId
GetSessionStatus(t) ==
  /\ ApiCalls < MaxApiCalls
  /\ api' = Logged("status", t, getSessionStatus(t))
  /\ UNCHANGED <<mainVars, wait, fwd>>

\* routes lines 62-66 and lines 640-643: DELETE /session/:agencyId, up to
\* the await of socket.logout() or, without a socket, to the return
ApiDisconnectSession(t) ==
  /\ ApiCalls < MaxApiCalls
  /\ discs' = discs \cup Disconnecting(t)
  /\ api' = Logged("disconnect", t, [awaited |-> Disconnecting(t) # {}])
  /\ UNCHANGED <<sessions, recs, meta, socks, calls, tasks, timers, ncalls,
                 nevents, ndiscs, loggedOut, auth, wait, fwd>>

\* The process has rejected every createSession call so far but the last
\* one the bound allows, so that the registry is empty.
ApiInit ==
  /\ sessions = [t \in Tenants |-> 0]
  /\ recs = <<>> /\ meta = <<>> /\ socks = <<>>
  /\ calls = {} /\ tasks = {} /\ timers = {} /\ discs = {}
  /\ ncalls = MaxCalls - 1 /\ nevents = 0 /\ ndiscs = 0
  /\ loggedOut = [t \in Tenants |-> FALSE]
  /\ auth = [t \in Tenants |-> "absent"]
  /\ api = NoApi
  /\ wait = NoWait
  /\ fwd = NoFwd

ApiNext ==
  \/ \E t \in Tenants, o \in ClientOptions : ClientCreateSession(t, o)
  \/ \E c \in calls : LookupFound(c)
  \/ \E c \in calls : LookupNotFound(c)
  \/ \E c \in calls : SocketCreated(c)
  \/ \E c \in calls : SocketFailed(c)
  \/ \E k \in DOMAIN socks, u \in Updates : EmitUpdate(k, u)
  \/ \E x \in tasks : QrRendered(x)
  \/ \E x \in tasks : QrFailed(x)
  \/ \E x \in tasks : CloseContinues(x)
  \/ \E x \in tasks, ok \in BOOLEAN : OpenSettled(x, ok)
  \/ \E d \in discs : LogoutResolved(d)
  \/ \E d \in discs : LogoutRejected(d)
  \/ \E t \in Tenants : SendMessage(t)
  \/ \E ok \in BOOLEAN : SendSettled(ok)
  \/ \E t \in Tenants : GetSessionStatus(t)
  \/ \E t \in Tenants : ApiDisconnectSession(t)

SpecApi == ApiInit /\ [][ApiNext]_vars

\* --------------------------------------------- the credential directory
\* createSession against credential directories that earlier runs of the
\* process left behind, with force_new_qr, and with the answer of a rejected
\* POST /session kept in `api.log`.

\* line 128 and routes lines 43-45: the error the route answers
Rejected(project, forceNewQR) ==
  [error |-> IF project = "wakhaflow" THEN "Invalid store_id format"
             ELSE "Agency not found",
   forceNewQR |-> forceNewQR]

\* routes lines 11-47 with lines 83-128: POST /session; a store id that is
\* no UUID is rejected before the first await
PostSession(t, o) ==
  /\ ClientCall(t, o)
  /\ api' = IF ProjectOf(o.project) = "wakhaflow" /\ sessions' = sessions
                 /\ calls' = calls
            THEN Logged("create", t, Rejected("wakhaflow", o.forceNewQR))
            ELSE api

\* lines 113-128 and routes lines 43-45: the agencies lookup found nothing
PostSessionNotFound(c) ==
  /\ LookupThrows(c)
  /\ api' = Logged("create", c.t, Rejected(c.project, c.forceNewQR))

\* lines 248-251: the socket emits creds.update and saveCreds writes the
\* credentials into the directory
CredsUpdate(k) ==
  /\ socks[k].live /\ socks[k].listeners
  /\ auth' = [auth EXCEPT ![socks[k].t] = "creds"]
  /\ UNCHANGED <<sessions, recs, meta, socks, calls, tasks, timers, discs,
                 ncalls, nevents, ndiscs, loggedOut, wait, fwd, api>>

AuthInit ==
  /\ MainInit
  /\ auth \in [Tenants -> AuthStates]
  /\ api = NoApi
  /\ wait = NoWait
  /\ fwd = NoFwd

AuthNext ==
  \/ \E t \in Tenants, o \in ForceOptions : PostSession(t, o)
  \/ \E c \in calls : LookupFound(c)
  \/ \E c \in calls : PostSessionNotFound(c)
  \/ \E c \in calls : SocketCreated(c)
  \/ \E c \in calls : SocketFailed(c)
  \/ \E k \in DOMAIN socks : CredsUpdate(k)
  \/ \E t \in Tenants : GetSessionStatus(t)

SpecAuth == AuthInit /\ [][AuthNext]_vars

\* ------------------------------------------------------------ reconnection
\* One client call of createSession, then only what the program itself does:
\* the socket's events, the handlers' continuations and the reconnect
\* timers, each of which calls createSession again.
\* routes lines 13-34: the client's options, and a store_id sent without
\* webhook_url
RetryOptions ==
  ClientOptions \cup
    {[project |-> "wakhaflow", webhookUrl |-> Undefined, forceNewQR |-> FALSE]}

RetryNext ==
  \/ /\ ncalls = 0
     /\ \E t \in Tenants, o \in RetryOptions : ClientCreateSession(t, o)
  \/ \E c \in calls : LookupFound(c)
  \/ \E c \in calls : LookupNotFound(c)
  \/ \E c \in calls : SocketCreated(c)
  \/ \E c \in calls : SocketFailed(c)
  \/ \E k \in DOMAIN socks, u \in Updates : EmitUpdate(k, u)
  \/ \E x \in tasks : QrRendered(x)
  \/ \E x \in tasks : QrFailed(x)
  \/ \E x \in tasks : CloseContinues(x)
  \/ \E x \in tasks, ok \in BOOLEAN : OpenSettled(x, ok)
  \/ \E tm \in timers : ReconnectTimer(tm)

\* setTimeout callbacks run, and a promise of this process (the image
\* rendering, useMultiFileAuthState) settles
LocalFairness ==
  /\ WF_vars(\E tm \in timers : ReconnectTimer(tm))
  /\ WF_vars(\E x \in tasks : QrRendered(x) \/ QrFailed(x))
  /\ WF_vars(\E c \in calls : SocketCreated(c) \/ SocketFailed(c))

\* a request to Supabase or to the webhook settles, resolved or rejected
RemoteFairness ==
  /\ WF_vars(\E c \in calls : LookupFound(c) \/ LookupNotFound(c))
  /\ WF_vars(\E x \in tasks : CloseContinues(x))
  /\ WF_vars(\E x \in tasks, ok \in BOOLEAN : OpenSettled(x, ok))

\* every timer fires and every request settles
SpecRetry == Init /\ [][RetryNext]_vars /\ LocalFairness /\ RemoteFairness

\* every timer fires, but a request may stay pending for ever
SpecGate == Init /\ [][RetryNext]_vars /\ LocalFairness

\* ----------------------------------------------------------------- pairing
\* One createSession call whose socket may emit an update that carries a
\* pairing code together with a connection change; the status row the
\* pairing branch upserts is recorded in api.log.

\* lines 364-375: the rendering resolved; updateSessionInDB is called with
\* {status: 'pending', qr_code} and not awaited
QrRenderedPersisted(x) ==
  /\ Rendered(x)
  /\ api' = Logged("upsert", x.t, [status |-> "pending", qr_code |-> x.sock])

PairNext ==
  \/ /\ ncalls = 0
     /\ \E t \in Tenants, o \in ClientOptions : ClientCreateSession(t, o)
  \/ \E c \in calls : LookupFound(c)
  \/ \E c \in calls : LookupNotFound(c)
  \/ \E c \in calls : SocketCreated(c)
  \/ \E c \in calls : SocketFailed(c)
  \/ \E k \in DOMAIN socks, u \in AllUpdates : EmitUpdate(k, u)
  \/ \E x \in tasks : QrRenderedPersisted(x)
  \/ \E x \in tasks : QrFailed(x)
  \/ \E x \in tasks : CloseContinues(x)
  \/ \E x \in tasks, ok \in BOOLEAN : OpenSettled(x, ok)
  \/ \E tm \in timers : ReconnectTimer(tm)

SpecPair == Init /\ [][PairNext]_vars

\* ----------------------------------------------------------------- claims
RecIds == DOMAIN recs
SockIds == DOMAIN socks
LiveSockets(t) == { k \in SockIds : socks[k].t = t /\ socks[k].live }

\* C1: for every tenant at most one transport that was created and not
\* ended exists at any instant.
C1_AtMostOneLiveTransport ==
  \A t \in Tenants : Cardinality(LiveSockets(t)) <= 1

\* C2: the registry never returns a record that a later createSession of the
\* tenant has superseded: the entry of a tenant is never an evicted record
\* and is always the newest record installed for the tenant.
C2_NoSupersededRecordInRegistry ==
  \A t \in Tenants :
    sessions[t] # 0 =>
      /\ ~meta[sessions[t]].evicted
      /\ \A r \in RecIds : meta[r].t = t => r <= sessions[t]

\* a record with a torn-down socket was superseded and the registry holds
\* its successor, which has its own transport
C2_Witness ==
  \E t \in Tenants, r \in RecIds :
    /\ meta[r].t = t /\ meta[r].evicted
    /\ recs[r].socket # 0 /\ ~socks[recs[r].socket].live
    /\ sessions[t] # 0 /\ recs[sessions[t]].socket # 0

\* C3: no record has a pairing code (qrCode non-null) and status
\* 'connected' at the same time.
C3_QrExcludesConnected ==
  \A r \in RecIds : ~(recs[r].qrCode # 0 /\ recs[r].status = "connected")

\* a record that was opened (it has a phone number) and then got the pairing
\* code of a pairing-ready handler that was suspended across the open
C3_Witness ==
  \E r \in RecIds : recs[r].qrCode # 0 /\ recs[r].phoneNumber # 0

\* C4: a record whose qrCode is non-null has status 'pending'.
C4_QrOnlyWhenPending ==
  \A r \in RecIds : recs[r].qrCode # 0 => recs[r].status = "pending"

\* C5: a record of the registry whose socket is null has status 'pending'
\* or 'disconnected'.
C5_NullSocketPendingOrDisconnected ==
  \A t \in Tenants :
    sessions[t] # 0 /\ recs[sessions[t]].socket = 0 =>
      recs[sessions[t]].status \in {"pending", "disconnected"}

\* C6: a reconnect is scheduled only for a close whose reason is not the
\* logged-out reason, and after a close with the logged-out reason no record
\* is created for the tenant unless a client calls createSession.
C6_ReconnectIffNotLoggedOut ==
  /\ \A tm \in timers : tm.reason # LoggedOut
  /\ \A r \in RecIds : ~meta[r].afterLogout

\* C7: a record created by a reconnect has the project and webhookUrl of
\* the record whose close scheduled it, and no record's project or
\* webhookUrl ever changes.
C7_SameAsTrigger ==
  \A r \in RecIds :
    meta[r].origin # 0 =>
      /\ recs[r].project = recs[meta[r].origin].project
      /\ recs[r].webhookUrl = recs[meta[r].origin].webhookUrl

C7_Immutable ==
  \A r \in RecIds :
    /\ recs'[r].project = recs[r].project
    /\ recs'[r].webhookUrl = recs[r].webhookUrl

C7_ReconnectKeepsProjectAndWebhook ==
  [](C7_SameAsTrigger) /\ [][C7_Immutable]_vars

\* a second successive reconnect of a project B tenant with a webhook
C7_Witness ==
  \E r \in RecIds :
    /\ meta[r].origin # 0 /\ meta[meta[r].origin].origin # 0
    /\ recs[r].project = "wakhaflow" /\ recs[r].webhookUrl = HookUrl

\* C8: the wait resolves, exactly once, and it has resolved once the
\* safety timeout has run, whatever happens to the tenant's entry meanwhile.
C8_WaitResolvesOnce ==
  /\ <>(wait.resolved)
  /\ [](wait.resolveCount <= 1)
  /\ [](~wait.safety => wait.resolved)
  /\ [](wait.resolved <=> wait.resolveCount = 1)

\* the safety timeout resolved a wait whose entry was gone at every poll
C8_Witness ==
  /\ wait.resolved
  /\ wait.result.status = "timeout"
  /\ wait.pollCount >= maxPolls

Genuine == { i \in 1..Len(fwd.batch) : ~fwd.batch[i].fromMe }
Echoes == { i \in 1..Len(fwd.batch) : fwd.batch[i].fromMe }
DeliveryStarted(i) ==
  \/ fwd.phase = "done"
  \/ i < fwd.i
  \/ i = fwd.i /\ fwd.pc = "deliver"

\* C9: every message that is not an echo is delivered on exactly one
\* channel: the webhook when the record has a webhookUrl, else the fallback.
C9_ExactlyOneChannel ==
  \A i \in Genuine :
    /\ fwd.hook[i] + fwd.fallback[i] <= 1
    /\ DeliveryStarted(i) =>
         /\ fwd.hook[i] + fwd.fallback[i] = 1
         /\ fwd.hook[i] = 1 <=>
              (fwd.session # 0 /\ recs[fwd.session].webhookUrl # Null)

\* a batch was handled whose audit log and insert failed, a message went to
\* the webhook
C9_Witness ==
  /\ fwd.phase = "done"
  /\ {"log", "insert"} \subseteq fwd.failures
  /\ \E i \in Genuine : fwd.hook[i] = 1 /\ fwd.fallback[i] = 0

\* C10: a fromMe message is never audit-logged, stored or delivered, and
\* the other messages of its batch are handled.
C10_EchoDiscarded ==
  /\ \A i \in Echoes :
       fwd.audit[i] = 0 /\ fwd.stored[i] = 0 /\ fwd.hook[i] = 0
         /\ fwd.fallback[i] = 0
  /\ fwd.phase = "done" =>
       \A i \in Genuine : fwd.audit[i] = 1 /\ fwd.hook[i] + fwd.fallback[i] = 1

\* a batch with an echo before a genuine message was handled to its end
C10_Witness ==
  /\ fwd.phase = "done"
  /\ \E i \in Echoes, j \in Genuine : i < j /\ fwd.audit[j] = 1

ApiLog == DOMAIN api.log
LastCall == api.log[Len(api.log)]

\* C11: sendMessage for a tenant without a record, or whose record is not
\* 'connected', returns {success: false, error}, invokes no transport send
\* and changes no record; a transport send is invoked only for a record
\* whose status is 'connected'.
C11_Refused(t) ==
  /\ api'.send = api.send
  /\ Len(api'.log) = Len(api.log) + 1
  /\ LastCall'.op = "send" /\ LastCall'.t = t
  /\ ~LastCall'.result.success /\ LastCall'.result.error # Undefined
  /\ UNCHANGED <<sessions, recs, socks, discs, timers>>

C11_SendOnlyWhenConnected ==
  [][\A t \in Tenants :
       SendMessage(t) =>
         /\ (sessions[t] = 0 \/ recs[sessions[t]].status # "connected")
               => C11_Refused(t)
         /\ api'.send # api.send =>
               sessions[t] # 0 /\ recs[sessions[t]].status = "connected"]_vars

\* one send was refused for a tenant whose record was not connected, a later
\* one went through the transport
C11_Witness ==
  \E i, j \in ApiLog :
    /\ i < j
    /\ api.log[i].op = "send" /\ api.log[i].result = NotConnected
    /\ api.log[j].op = "send" /\ api.log[j].result.success
    /\ api.log[i].t = api.log[j].t

\* C12: disconnectSession for a tenant without a record returns without an
\* error and leaves the registry, every record and every socket as they
\* were, so a second call in a row does what the first did: nothing.
C12_DisconnectAbsentIsNoOp ==
  [][\A t \in Tenants :
       ApiDisconnectSession(t) /\ sessions[t] = 0 =>
         /\ ~LastCall'.result.awaited
         /\ UNCHANGED <<sessions, recs, socks, discs, calls, tasks, timers,
                        auth>>]_vars

\* two calls in a row for a tenant that has no record
C12_Witness ==
  /\ Len(api.log) = 2
  /\ \A i \in ApiLog :
       api.log[i].op = "disconnect" /\ ~api.log[i].result.awaited
  /\ api.log[1].t = api.log[2].t
  /\ sessions[api.log[1].t] = 0
  /\ \E t \in Tenants : sessions[t] # 0

\* C13: once disconnectSession(t) has returned without an error, the
\* registry holds no record for t and getSessionStatus(t) is 'not_found',
\* whatever state the record was in when the call was made.
C13_Removed(t) ==
  /\ sessions'[t] = 0
  /\ getSessionStatus(t)'.status = "not_found"

C13_DisconnectRemovesRecord ==
  [][/\ \A t \in Tenants :
          ApiDisconnectSession(t) /\ ~LastCall'.result.awaited
            => C13_Removed(t)
     /\ \A d \in discs : LogoutResolved(d) => C13_Removed(d.t)]_vars

\* C14: a reconnect timer whose record is no longer the tenant's entry
\* (another createSession superseded it, or disconnectSession removed it)
\* does nothing when it fires: it starts no createSession, installs no
\* record and tears down no socket.
C14_StaleTimerAbandoned ==
  [][\A tm \in timers :
       ReconnectTimer(tm) /\ sessions[tm.t] # tm.rec =>
         UNCHANGED <<sessions, recs, socks, calls>>]_vars

\* C15: getSessionStatus returns status 'not_found' with null phoneNumber,
\* verifiedName and qrCode exactly when the registry has no record for the
\* tenant, else the fields of the record as they are; it changes nothing.
C15_Answer(t) ==
  /\ Len(api'.log) = Len(api.log) + 1
  /\ LastCall'.op = "status" /\ LastCall'.t = t
  /\ (LastCall'.result.status = "not_found") <=> (sessions[t] = 0)
  /\ sessions[t] = 0 =>
       /\ LastCall'.result.phoneNumber = 0
       /\ LastCall'.result.verifiedName = 0
       /\ LastCall'.result.qrCode = 0
  /\ sessions[t] # 0 =>
       /\ LastCall'.result.status = recs[sessions[t]].status
       /\ LastCall'.result.phoneNumber = recs[sessions[t]].phoneNumber
       /\ LastCall'.result.verifiedName = recs[sessions[t]].verifiedName
       /\ LastCall'.result.qrCode = recs[sessions[t]].qrCode

C15_StatusReadsRegistry ==
  [][\A t \in Tenants :
       GetSessionStatus(t) =>
         /\ C15_Answer(t)
         /\ UNCHANGED <<sessions, recs, socks, discs, calls, tasks, timers,
                        auth>>]_vars

\* the status of a tenant was read as 'not_found' and, after its record was
\* closed, as 'disconnected'
C15_Witness ==
  \E i, j \in ApiLog :
    /\ i < j
    /\ api.log[i].op = "status" /\ api.log[j].op = "status"
    /\ api.log[i].t = api.log[j].t
    /\ api.log[i].result = NotFound
    /\ api.log[j].result.status = "disconnected"

\* C16: a createSession call that fails the tenant validation (a store id
\* that is no UUID for project wakhaflow, an agency the lookup does not find
\* for project aiod) changes nothing: the registry, the records, the
\* sockets and the credential directories are as before, with forceNewQR
\* too; up to the answer of the lookup the call has changed nothing either.
C16_Untouched ==
  UNCHANGED <<sessions, recs, socks, auth, tasks, timers, discs>>

C16_RejectedCallHasNoEffect ==
  [][/\ \A t \in Tenants, o \in ForceOptions :
          PostSession(t, o) /\ ProjectOf(o.project) = "wakhaflow"
            /\ t \notin UuidIds
            => C16_Untouched /\ calls' = calls
     /\ \A t \in Tenants, o \in ForceOptions :
          PostSession(t, o) /\ ProjectOf(o.project) = "aiod"
            => C16_Untouched
     /\ \A c \in calls : PostSessionNotFound(c) => C16_Untouched]_vars

\* the tenant's status was read from its record, then a call with
\* forceNewQR was rejected; the record, its open socket and the stored
\* credentials are still there
C16_Witness ==
  \E i, j \in ApiLog :
    /\ i < j
    /\ api.log[i].op = "status" /\ api.log[i].result.status # "not_found"
    /\ api.log[j].op = "create" /\ api.log[j].result.forceNewQR
    /\ api.log[i].t = api.log[j].t
    /\ Len(recs) = 1
    /\ sessions[api.log[j].t] = 1
    /\ recs[1].socket # 0 /\ socks[recs[1].socket].live
    /\ auth[api.log[j].t] = "creds"

\* C17: when makeWASocket throws, the record of the call is left with
\* status 'disconnected' and a null socket, the call throws instead of
\* entering its wait, and the failure schedules no reconnect and starts no
\* handler; the record of a call that threw never gets a socket.
C17_Failed(c) ==
  /\ recs'[c.rec].status = "disconnected"
  /\ recs'[c.rec].socket = 0
  /\ meta'[c.rec].outcome = "threw"
  /\ UNCHANGED <<sessions, socks, timers, tasks, wait>>

C17_SocketFailureMarksDisconnected ==
  /\ [](\A r \in RecIds : meta[r].outcome = "threw" => recs[r].socket = 0)
  /\ [][\A c \in calls : SocketFailed(c) => C17_Failed(c)]_vars

\* the record a reconnect installed is the tenant's entry and its
\* makeWASocket threw
C17_Witness ==
  \E t \in Tenants :
    /\ sessions[t] # 0
    /\ meta[sessions[t]].outcome = "threw"
    /\ meta[sessions[t]].origin # 0
    /\ recs[sessions[t]].status = "disconnected"
    /\ recs[sessions[t]].socket = 0
    /\ timers = {}

\* C18: an event of a socket that is not the socket of the tenant's
\* current record changes no field of that record, neither when it is
\* emitted nor when its handler goes on after an await, and that handler
\* ends no socket and schedules no reconnect.
C18_Stale(t, r, k) == sessions[t] = r /\ r # 0 /\ recs[r].socket # k

C18_StaleEventIgnored ==
  [][/\ \A k \in SockIds, u \in Updates :
          EmitUpdate(k, u)
            /\ C18_Stale(socks[k].t, sessions[socks[k].t], k)
            => recs' = recs
     /\ \A x \in tasks :
          (QrRendered(x) \/ QrFailed(x) \/ CloseContinues(x))
            /\ C18_Stale(x.t, x.rec, x.sock)
            => UNCHANGED <<recs, socks, timers>>]_vars

\* C19: the handler of an event has made all its writes to the record
\* before the handler of a later event writes it: a pairing handler never
\* sets qrCode and 'pending' after the handler of a later 'open' or 'close'
\* has written the record.
C19_HandlersSerialized ==
  [][\A x \in tasks : QrRendered(x) => ~x.overtaken]_vars

\* C20: the handler of 'open' leaves the record 'connected', without a
\* pairing code and with the phone number and name of the socket that
\* emitted the event, and what follows in that handler (webhook, agencies
\* update, status row), succeeding or failing, writes nothing to a record.
C20_Opened(r, k) ==
  /\ recs'[r].status = "connected"
  /\ recs'[r].qrCode = 0
  /\ recs'[r].phoneNumber = k
  /\ recs'[r].verifiedName = k

C20_OpenSetsConnected ==
  [][/\ \A k \in SockIds, u \in Updates :
          EmitUpdate(k, u) /\ u.connection = "open"
            /\ sessions[socks[k].t] # 0
            => C20_Opened(sessions[socks[k].t], k)
     /\ \A x \in tasks, ok \in BOOLEAN :
          OpenSettled(x, ok) => recs' = recs]_vars

\* C21: once a close with the logged-out reason has set the tenant's record
\* to 'disconnected', no handler that goes on after an await and no timer
\* changes what getSessionStatus returns for the tenant: it stays
\* 'disconnected' as long as no client calls createSession or
\* disconnectSession.
C21_Continuation ==
  \/ \E x \in tasks : QrRendered(x) \/ QrFailed(x) \/ CloseContinues(x)
  \/ \E x \in tasks, ok \in BOOLEAN : OpenSettled(x, ok)
  \/ \E tm \in timers : ReconnectTimer(tm)

C21_LoggedOutStaysDisconnected ==
  [][\A t \in Tenants :
       loggedOut[t] /\ getSessionStatus(t).status = "disconnected"
         /\ C21_Continuation
         => getSessionStatus(t)'.status = "disconnected"]_vars

\* C22: a poll of the wait resolves it with the pairing code and status
\* 'pending' when the tenant's current record has a code, with a null code
\* and 'connected' when that record is connected; before poll number
\* maxPolls nothing else resolves it (a 'disconnected' record does not); a
\* resolution at the bound, by a poll or by the safety timeout, is a result
\* holding the current code and status ('timeout' without a record).
C22_Success(cs) == cs.present /\ (cs.qrCode # 0 \/ cs.status = "connected")

C22_Poll(cs, n) ==
  /\ cs.present /\ cs.qrCode # 0 =>
       /\ wait'.resolved
       /\ wait'.result = [qrCode |-> cs.qrCode, status |-> "pending"]
  /\ cs.present /\ cs.qrCode = 0 /\ cs.status = "connected" =>
       /\ wait'.resolved
       /\ wait'.result = [qrCode |-> 0, status |-> "connected"]
  /\ ~C22_Success(cs) /\ n < maxPolls => ~wait'.resolved
  /\ ~C22_Success(cs) /\ wait'.resolved =>
       /\ n >= maxPolls
       /\ wait'.result = [qrCode |-> cs.qrCode, status |-> cs.status]

C22_Safety(cs) ==
  /\ wait'.resolved
  /\ wait'.result.qrCode = (IF cs.present THEN cs.qrCode ELSE 0)
  /\ wait'.result.status = (IF cs.present THEN cs.status ELSE "timeout")

C22_WaitResolvesOnCodeOrConnected ==
  [][/\ WaitTick /\ ~wait.resolved
          => C22_Poll(CurrentSession(wait.t), wait.pollCount + 1)
     /\ WaitSafety /\ ~wait.resolved
          => C22_Safety(CurrentSession(wait.t))]_vars

\* poll number maxPolls resolved the wait with the status of a record that
\* was closed and has no code
C22_Witness ==
  /\ wait.resolved
  /\ wait.pollCount = maxPolls
  /\ wait.result = [qrCode |-> 0, status |-> "disconnected"]

\* C23: the transport made by a createSession call with forceNewQR true is
\* bound to empty credentials, the persisted ones having been discarded
\* before it was instantiated; a createSession call made by a reconnect
\* timer never has forceNewQR.
C23_ForcedResetBindsEmptyCredentials ==
  [][\A c \in calls :
       /\ SocketCreated(c) /\ c.forceNewQR
            => socks'[Len(socks')].creds = "empty"
       /\ c.origin # 0 => ~c.forceNewQR]_vars

\* C24: persistence does not gate the state machine: once the close branch
\* has handled a close with a non-logout reason, the socket of the record
\* is torn down and a reconnect timer is scheduled for it, even when the
\* updateSessionInDB call of that handler never returns.
C24_ClosePending(r) ==
  \E x \in tasks : x.pc = "closeDB" /\ x.rec = r /\ x.u.reason # LoggedOut

C24_TornDownAndScheduled(r) ==
  /\ r \in DOMAIN recs /\ recs[r].socket = 0
  /\ \E tm \in timers : tm.rec = r

C24_PersistenceNeverGates ==
  \A r \in 1..MaxCalls : C24_ClosePending(r) ~> C24_TornDownAndScheduled(r)

\* C26: reconnection has no attempt cap: every close with a non-logout
\* reason schedules a reconnect timer for the record that closed, and is
\* followed by a new createSession call for the same tenant made for that
\* record, whether the record came from a client call or from an earlier
\* reconnect.
C26_Closed(r) ==
  \E x \in tasks : x.pc = "closeDB" /\ x.rec = r /\ x.u.reason # LoggedOut

C26_Retried(r) ==
  \E c \in calls : c.origin = r /\ c.t = meta[r].t

C25_Expected(s) ==
  IF s.project = "wakhaflow" THEN "webhook" ELSE "agencies"

C25_OpenNotifiesDownstream ==
  [][\A k \in DOMAIN socks, u \in Updates :
       EmitUpdate(k, u) /\ u.connection = "open" /\ sessions[socks[k].t] # 0
         => \E x \in tasks' \ tasks :
              /\ x.pc = "openDB" /\ x.rec = sessions[socks[k].t]
              /\ x.notify = C25_Expected(recs[x.rec])]_vars

\* C27: tenant isolation: a createSession, sendMessage or disconnectSession
\* call, a continuation of one, a transport event, a handler continuation
\* or a reconnect timer of tenant x leaves the registry entry, the records
\* and the sockets of every other tenant y as they are.
C27_Acts(t) ==
  \/ \E o \in ClientOptions : ClientCreateSession(t, o)
  \/ \E c \in calls :
       /\ c.t = t
       /\ LookupFound(c) \/ LookupNotFound(c) \/ SocketCreated(c)
            \/ SocketFailed(c)
  \/ \E k \in DOMAIN socks, u \in Updates : socks[k].t = t /\ EmitUpdate(k, u)
  \/ \E x \in tasks :
       /\ x.t = t
       /\ QrRendered(x) \/ QrFailed(x) \/ CloseContinues(x)
            \/ \E ok \in BOOLEAN : OpenSettled(x, ok)
  \/ \E tm \in timers : tm.t = t /\ ReconnectTimer(tm)
  \/ DisconnectSession(t) \/ ApiDisconnectSession(t)
  \/ \E d \in discs : d.t = t /\ (LogoutResolved(d) \/ LogoutRejected(d))
  \/ SendMessage(t)
  \/ api.send.t = t /\ \E ok \in BOOLEAN : SendSettled(ok)

C27_RecordsOf(t) == { r \in RecIds : meta[r].t = t }
C27_SocketsOf(t) == { k \in SockIds : socks[k].t = t }

C27_Untouched(y) ==
  /\ sessions'[y] = sessions[y]
  /\ C27_RecordsOf(y)' = C27_RecordsOf(y)
  /\ \A r \in C27_RecordsOf(y) : recs'[r] = recs[r]
  /\ C27_SocketsOf(y)' = C27_SocketsOf(y)
  /\ \A k \in C27_SocketsOf(y) : socks'[k] = socks[k]

C27_TenantIsolation ==
  [][\A x \in Tenants, y \in Tenants :
       x # y => C27_Untouched(y) \/ ~C27_Acts(x)]_vars

\* both tenants have a record with a socket, and the socket of one of them
\* has announced the connection while the other is still connecting
C27_Witness ==
  \E x \in Tenants, y \in Tenants :
    /\ x # y /\ sessions[x] # 0 /\ sessions[y] # 0
    /\ recs[sessions[x]].socket # 0 /\ recs[sessions[x]].status = "connected"
    /\ recs[sessions[y]].socket # 0 /\ recs[sessions[y]].status = "connecting"

\* C28: a record of the registry whose status is 'connected' holds a socket,
\* and its phoneNumber and verifiedName are those of that socket, so the
\* two guards of sendMessage (status 'connected', socket non-null) agree.
C28_ConnectedHasItsSocket ==
  \A t \in Tenants :
    sessions[t] # 0 /\ recs[sessions[t]].status = "connected" =>
      /\ recs[sessions[t]].socket # 0
      /\ recs[sessions[t]].phoneNumber = recs[sessions[t]].socket
      /\ recs[sessions[t]].verifiedName = recs[sessions[t]].socket

\* C29: at most one reconnect timer is pending for a tenant at any instant,
\* and the close of one socket never has more than one reconnect timer.
C29_OneTimerPerTenant ==
  /\ \A t \in Tenants : Cardinality({ tm \in timers : tm.t = t }) <= 1
  /\ \A k \in SockIds : Cardinality({ tm \in timers : tm.sock = k }) <= 1

\* C30: when the rendering of the pairing code fails, the handler writes no
\* pairing code and no 'pending' status, upserts no status row for it, and
\* goes on with the connection part of the same update: the record ends as
\* the close or open branch alone would leave it, with that branch's
\* continuation pending, and unchanged when the update carries neither.
C30_Rest(s, u) ==
  IF u.connection = "close" THEN [s EXCEPT !.status = "disconnected"]
  ELSE IF u.connection = "open"
  THEN [s EXCEPT !.status = "connected", !.qrCode = 0,
                 !.phoneNumber = s.socket, !.verifiedName = s.socket]
  ELSE s

C30_Goes(x) ==
  IF x.u.connection = "none" THEN tasks' = tasks \ {x}
  ELSE \E y \in tasks' :
         /\ y.rec = x.rec /\ y.u = x.u /\ y.sock = x.sock
         /\ y.pc = (IF x.u.connection = "close" THEN "closeDB" ELSE "openDB")

C30_RenderFailureSkipsOnlyPairing ==
  [][\A x \in tasks :
       QrFailed(x) =>
         /\ api' = api
         /\ recs' = [recs EXCEPT ![x.rec] = C30_Rest(@, x.u)]
         /\ C30_Goes(x)]_vars

\* the handler of an update with a pairing code and a close is suspended in
\* the close branch, and the record has no code and no status row was
\* upserted: the rendering had failed
C30_Witness ==
  \E y \in tasks :
    /\ y.pc = "closeDB" /\ y.u.qr
    /\ recs[y.rec].qrCode = 0 /\ recs[y.rec].status = "disconnected"
    /\ api.log = <<>>

====
